---- MODULE Spec2Model ----
(***************************************************************************)
(* Paginated listing of the Service Bus management client                  *)
(* (ServiceBusManagementClient): getQueues() and its byPage(), the async   *)
(* generators listQueuesPage / listQueuesAll behind them, the request      *)
(* construction of listResources and the decoding of a list response by    *)
(* buildListQueuesResponse / getMarkerFromNextLinkUrl.                     *)
(*                                                                         *)
(* JavaScript values are records tagged by their type; a string is the     *)
(* sequence of its characters, so that Number(), toString() and the        *)
(* truthiness tests of the code are computed and not assumed.              *)
(***************************************************************************)
EXTENDS Integers, Sequences, FiniteSets, TLC

\* ------------------------------------------------------------------ bounds
\* largest number of records the service holds
MaxRecords == 5
\* largest maxPageSize a caller passes to byPage
MaxPageSize == 2
\* the page size the service uses when a request carries no $top
ServerPageSize == 2
\* largest number of deviations (odd responses, failures) of a faulty service
MaxFaults == 1
\* largest number of next() calls a consumer leaves un-awaited
MaxPending == 2
\* largest number of next() calls made on one sequence
MaxCalls == 7
\* largest number of times a consumer obtains the async iterator of a
\* sequence again
MaxHandles == 1

\* the two sequences (iterators) a run of the model creates
SeqIds == {1, 2}

\* ------------------------------------------------------- JavaScript values
Undefined == [t |-> "undefined"]
Null == [t |-> "null"]
Str(cs) == [t |-> "string", s |-> cs]
NaN == [nan |-> TRUE, num |-> 0, den |-> 1]
Fin(n, d) == [nan |-> FALSE, num |-> n, den |-> d]
NumberValue(x) == [t |-> "number", v |-> x]
EmptyString == Str(<<>>)

DigitChars == <<"0", "1", "2", "3", "4", "5", "6", "7", "8", "9">>
IsDigit(c) == \E i \in 1..10 : DigitChars[i] = c
DigitVal(c) == (CHOOSE i \in 1..10 : DigitChars[i] = c) - 1
AllDigits(cs) == \A i \in 1..Len(cs) : IsDigit(cs[i])

RECURSIVE DigitsVal(_)
DigitsVal(cs) ==
  IF cs = <<>> THEN 0
  ELSE 10 * DigitsVal(SubSeq(cs, 1, Len(cs) - 1)) + DigitVal(cs[Len(cs)])

RECURSIVE Pow10(_)
Pow10(k) == IF k = 0 THEN 1 ELSE 10 * Pow10(k - 1)

RECURSIVE Normalize(_)
Normalize(x) ==
  IF x.nan \/ x.den = 1 \/ x.num % 10 # 0 THEN x
  ELSE Normalize(Fin(x.num \div 10, x.den \div 10))

Negate(x) == IF x.nan THEN x ELSE Fin(0 - x.num, x.den)

RECURSIVE TrimLeft(_)
TrimLeft(cs) ==
  IF cs # <<>> /\ cs[1] = " " THEN TrimLeft(Tail(cs)) ELSE cs

RECURSIVE TrimRight(_)
TrimRight(cs) ==
  IF cs # <<>> /\ cs[Len(cs)] = " " THEN TrimRight(SubSeq(cs, 1, Len(cs) - 1)) ELSE cs

\* StrUnsignedDecimalLiteral: digits, digits "." digits?, "." digits
UnsignedDecimal(cs) ==
  LET dots == {i \in 1..Len(cs) : cs[i] = "."} IN
  IF dots = {} THEN
    IF cs # <<>> /\ AllDigits(cs) THEN Fin(DigitsVal(cs), 1) ELSE NaN
  ELSE IF Cardinality(dots) > 1 THEN NaN
  ELSE LET p == CHOOSE i \in dots : TRUE
           a == SubSeq(cs, 1, p - 1)
           f == SubSeq(cs, p + 1, Len(cs))
       IN IF AllDigits(a) /\ AllDigits(f) /\ Len(a) + Len(f) > 0
          THEN Normalize(Fin(DigitsVal(a) * Pow10(Len(f)) + DigitsVal(f), Pow10(Len(f))))
          ELSE NaN

\* StringToNumber of ECMAScript, for strings over digits, sign, ".", blank
\* and letters: blanks are trimmed, the empty string is 0
StringToNumber(cs) ==
  LET b == TrimRight(TrimLeft(cs)) IN
  IF b = <<>> THEN Fin(0, 1)
  ELSE IF b[1] = "-" THEN Negate(UnsignedDecimal(Tail(b)))
  ELSE IF b[1] = "+" THEN UnsignedDecimal(Tail(b))
  ELSE UnsignedDecimal(b)

\* Number(x)
ToNumber(x) ==
  CASE x.t = "undefined" -> NaN
    [] x.t = "null" -> Fin(0, 1)
    [] x.t = "string" -> StringToNumber(x.s)
    [] x.t = "number" -> x.v
    [] OTHER -> NaN

\* x >= 0 on numbers (false for NaN)
GeqZero(x) == ~x.nan /\ x.num >= 0

IsInteger(x) == ~x.nan /\ x.den = 1

\* the truthiness of a value, as `if (x)`, `while (x)` and `!x` test it
Truthy(x) ==
  CASE x.t = "undefined" -> FALSE
    [] x.t = "null" -> FALSE
    [] x.t = "string" -> x.s # <<>>
    [] x.t = "number" -> ~x.v.nan /\ x.v.num # 0
    [] OTHER -> TRUE

RECURSIVE NatToChars(_)
NatToChars(n) ==
  IF n < 10 THEN <<DigitChars[n + 1]>>
  ELSE NatToChars(n \div 10) \o <<DigitChars[(n % 10) + 1]>>

RECURSIVE FracChars(_, _)
FracChars(r, d) ==
  IF d = 1 THEN <<>>
  ELSE <<DigitChars[(r \div (d \div 10)) + 1]>> \o FracChars(r % (d \div 10), d \div 10)

\* Number.prototype.toString() of a finite decimal
NumberToChars(x) ==
  IF x.nan THEN <<"N", "a", "N">>
  ELSE LET m == IF x.num < 0 THEN 0 - x.num ELSE x.num
           body == NatToChars(m \div x.den) \o
                   (IF x.den = 1 THEN <<>> ELSE <<".">> \o FracChars(m % x.den, x.den))
       IN IF x.num < 0 THEN <<"-">> \o body ELSE body

\* ------------------------------------------------- the service (backend)
\* a raw record of a list response; `valid` tells whether it decodes
Raw(name, valid) == [name |-> name, valid |-> valid]
RecordNames == <<"A", "B", "C", "D", "E", "F", "G">>

\* the first n records, the one at position bad (0: none) undecodable
Collection(n, bad) == [i \in 1..n |-> Raw(RecordNames[i], i # bad)]

\* a next link: a URL that parses or not, with the text of its $skip query
\* parameter (Null when the URL has no such parameter)
Url(valid, skip) == [t |-> "url", valid |-> valid, skip |-> skip]

ArrayBody(items, nextLink) == [t |-> "array", items |-> items, nextLink |-> nextLink]
ObjectBody(nextLink) == [t |-> "object", nextLink |-> nextLink]
HttpResponse(status, body) == [status |-> status, parsedBody |-> body]

Min(a, b) == IF a < b THEN a ELSE b

\* services that follow the wire contract: they serve the window
\* [skip, skip + top) of their records and report a next link, whose $skip
\* is the offset after the window, exactly while records remain
HonestBackends ==
  { [records |-> Collection(n, 0), defTop |-> ServerPageSize, faulty |-> FALSE] :
      n \in 0..MaxRecords }
  \cup { [records |-> Collection(3, bad), defTop |-> ServerPageSize, faulty |-> FALSE] :
           bad \in 1..3 }

\* a service or network that may also deviate: answer with another body,
\* another next link or another status, or fail
FaultyBackends ==
  { [records |-> Collection(3, bad), defTop |-> ServerPageSize, faulty |-> TRUE] :
      bad \in {0, 2} }

QuerySkip(req) ==
  IF req.query.skip = Undefined THEN Fin(0, 1) ELSE ToNumber(req.query.skip)

QueryTop(b, req) ==
  IF req.query.top = Undefined THEN Fin(b.defTop, 1) ELSE ToNumber(req.query.top)

\* the service accepts non-negative integer offsets and positive limits
WellFormedQuery(b, req) ==
  /\ IsInteger(QuerySkip(req)) /\ QuerySkip(req).num >= 0
  /\ IsInteger(QueryTop(b, req)) /\ QueryTop(b, req).num >= 1

Window(b, req) ==
  LET skip == QuerySkip(req).num
      top == QueryTop(b, req).num
      n == Len(b.records)
      items == SubSeq(b.records, skip + 1, Min(skip + top, n))
      link == IF skip + top < n
              THEN Url(TRUE, Str(NatToChars(skip + top)))
              ELSE Undefined
  IN HttpResponse(200, ArrayBody(items, link))

\* the next links a faulty service may put in a response
OddLinks ==
  { Undefined, EmptyString, Url(FALSE, Null), Url(TRUE, Null),
    Url(TRUE, EmptyString), Url(TRUE, Str(<<"a", "b", "c">>)),
    Url(TRUE, Str(<<"-", "1">>)), Url(TRUE, Str(<<"0">>)), Url(TRUE, Str(<<"2">>)) }

Statuses == {200, 206}

\* the response of a service that follows the contract
Responses(b, req) ==
  IF WellFormedQuery(b, req) THEN {Window(b, req)} ELSE {}

\* the responses with which a faulty service may deviate
OddResponses(b, req) ==
  IF ~b.faulty THEN {}
  ELSE LET bodies == { w.parsedBody.items : w \in Responses(b, req) } \cup {<<>>}
       IN ({ HttpResponse(200, ArrayBody(items, l)) : items \in bodies, l \in OddLinks }
           \cup { HttpResponse(st, ObjectBody(l)) :
                    st \in Statuses, l \in {Undefined, Url(FALSE, Null)} }
           \cup { HttpResponse(st, body) : st \in Statuses, body \in {Undefined, Null} })
          \ Responses(b, req)

ServiceError == [name |-> "RestError", code |-> "ServiceError", statusCode |-> 400]
TransportError == [name |-> "Error", code |-> "ECONNRESET", statusCode |-> 0]
AbortError == [name |-> "AbortError", code |-> "REQUEST_ABORTED_ERROR", statusCode |-> 0]

\* the errors with which the request may be rejected instead of answered
Rejections(b, req) ==
  (IF WellFormedQuery(b, req) THEN {} ELSE {ServiceError})
  \cup (IF b.faulty THEN {TransportError, AbortError} ELSE {})

\* --------------------------------------------------- decoding a response
UsageError == [name |-> "Error", code |-> "InvalidContinuationToken", statusCode |-> 0]
ParseError(status) == [name |-> "RestError", code |-> "PARSE_ERROR", statusCode |-> status]

\* variant: the test `typeof token === "string"` left out
throwIfInvalidContinuationToken_AnyType(token) ==
  ~(token = Undefined \/ GeqZero(ToNumber(token)))

\* throwIfInvalidContinuationToken: TRUE when it throws
throwIfInvalidContinuationToken(token) ==
  ~(token = Undefined \/ (token.t = "string" /\ GeqZero(ToNumber(token))))

\* variant: a next link that does not parse is taken for no next link
getMarkerFromNextLinkUrl_IgnoreBadUrl(url) ==
  IF ~Truthy(url) THEN [throws |-> FALSE, value |-> Undefined]
  ELSE IF url.valid THEN [throws |-> FALSE, value |-> url.skip]
  ELSE [throws |-> FALSE, value |-> Undefined]

\* variant: a query parameter the next link does not have is read
getMarkerFromNextLinkUrl_OtherParameter(url) ==
  IF ~Truthy(url) THEN [throws |-> FALSE, value |-> Undefined]
  ELSE IF url.valid THEN [throws |-> FALSE, value |-> Null]
  ELSE [throws |-> TRUE, value |-> Undefined]

\* variant: the skip parameter of the next link is never read
getMarkerFromNextLinkUrl_NoToken(url) ==
  IF ~Truthy(url) THEN [throws |-> FALSE, value |-> Undefined]
  ELSE IF url.valid THEN [throws |-> FALSE, value |-> Undefined]
  ELSE [throws |-> TRUE, value |-> Undefined]

\* getMarkerFromNextLinkUrl: the value returned, or that it throws
getMarkerFromNextLinkUrl(url) ==
  IF ~Truthy(url) THEN [throws |-> FALSE, value |-> Undefined]
  ELSE IF url.valid THEN [throws |-> FALSE, value |-> url.skip]
  ELSE [throws |-> TRUE, value |-> Undefined]

\* buildQueue: the description decoded from a raw record, Undefined when
\* the record does not decode
buildQueue(raw) ==
  IF raw.valid THEN [t |-> "queue", name |-> raw.name] ELSE Undefined

\* variant: the loop over the raw records ends at the first one that does
\* not decode
DecodeAll_StopAtBad(raws) ==
  LET bad == {i \in 1..Len(raws) : ~Truthy(buildQueue(raws[i]))}
      n == IF bad = {} THEN Len(raws)
           ELSE (CHOOSE i \in bad : \A j \in bad : i <= j) - 1
  IN [i \in 1..n |-> buildQueue(raws[i])]

\* buildListQueuesResponse, the loop `if (queue) queues.push(queue)`
RECURSIVE DecodeAll(_)
DecodeAll(raws) ==
  IF raws = <<>> THEN <<>>
  ELSE LET queue == buildQueue(Head(raws))
       IN (IF Truthy(queue) THEN <<queue>> ELSE <<>>) \o DecodeAll(Tail(raws))

Page(items, token, response) ==
  [items |-> items, continuationToken |-> token, _response |-> response]

NoPage == Page(<<>>, Undefined, Undefined)
NoError == [name |-> "none", code |-> "none", statusCode |-> 0]

\* variant: the test Array.isArray(response.parsedBody) left out
buildListQueuesResponse_NoArrayCheck(response) ==
  LET body == response.parsedBody
      failed == [ok |-> FALSE, page |-> NoPage, error |-> ParseError(response.status)]
  IN IF body \in {Undefined, Null} THEN failed
     ELSE LET nextMarker == getMarkerFromNextLinkUrl(body.nextLink)
          IN IF nextMarker.throws THEN failed
             ELSE [ok |-> TRUE,
                   page |-> Page(IF body.t = "array" THEN DecodeAll(body.items) ELSE <<>>,
                                 nextMarker.value, response),
                   error |-> NoError]

\* variant: an empty array is promoted to a not-found error, as getResource does
buildListQueuesResponse_EmptyIsNotFound(response) ==
  LET body == response.parsedBody
      failed == [ok |-> FALSE, page |-> NoPage, error |-> ParseError(response.status)]
      notFound == [ok |-> FALSE, page |-> NoPage,
                   error |-> [name |-> "RestError", code |-> "MessageEntityNotFoundError",
                              statusCode |-> 404]]
  IN IF body \in {Undefined, Null} THEN failed
     ELSE LET nextMarker == getMarkerFromNextLinkUrl(body.nextLink)
          IN IF nextMarker.throws THEN failed
             ELSE IF body.t # "array" THEN failed
             ELSE IF body.items = <<>> THEN notFound
             ELSE [ok |-> TRUE,
                   page |-> Page(DecodeAll(body.items), nextMarker.value, response),
                   error |-> NoError]

\* buildListQueuesResponse: the page, or the parse error thrown
buildListQueuesResponse(response) ==
  LET body == response.parsedBody
      failed == [ok |-> FALSE, page |-> NoPage, error |-> ParseError(response.status)]
  IN IF body \in {Undefined, Null} THEN failed
     ELSE LET nextMarker == getMarkerFromNextLinkUrl(body.nextLink)
          IN IF nextMarker.throws THEN failed
             ELSE IF body.t # "array" THEN failed
             ELSE [ok |-> TRUE,
                   page |-> Page(DecodeAll(body.items), nextMarker.value, response),
                   error |-> NoError]

\* ------------------------------------------------- building a list request
QueuesPath == "$Resources/Queues"

\* listResources: the request sent for (name, {skip, maxCount})
listResources(name, listRequestOptions) ==
  [method |-> "GET",
   name |-> name,
   options |-> listRequestOptions,
   query |-> [skip |-> IF Truthy(NumberValue(listRequestOptions.skip))
                       THEN Str(NumberToChars(listRequestOptions.skip))
                       ELSE Undefined,
              top |-> IF Truthy(listRequestOptions.maxCount)
                      THEN Str(NumberToChars(listRequestOptions.maxCount.v))
                      ELSE Undefined]]

\* listQueues: one list request for the queues
listQueues(options) == listResources(QueuesPath, options)

\* ------------------------------------------------- fetching one entity
EntityKinds == {"queue", "topic", "subscription"}
EntityNames == {"A", "Z"}
TopicName == "T"

\* the parsed body of a response that describes one entity
Entry(name, valid) == [t |-> "entry", name |-> name, valid |-> valid]
EmptyObject == [t |-> "object"]

NotFoundError ==
  [name |-> "RestError", code |-> "MessageEntityNotFoundError", statusCode |-> 404]

getSubscriptionPath(topicName, subscriptionName) ==
  <<topicName, "Subscriptions", subscriptionName>>

\* the resource names getQueue, getTopic and getSubscription ask for
EntityPaths(kind) ==
  IF kind = "subscription"
  THEN {getSubscriptionPath(TopicName, n) : n \in EntityNames}
  ELSE {<<n>> : n \in EntityNames}

Answered(response) == [t |-> "response", response |-> response, error |-> NoError]
Failed(error) == [t |-> "error", response |-> Undefined, error |-> error]

\* how the service settles the GET of one entity: a service that follows
\* the contract describes an entity it has, and for one it does not have
\* it answers with an empty feed or without a body, or rejects the request
\* as not found; a faulty one may answer or fail otherwise
EntityOutcomes(b, path) ==
  LET name == path[Len(path)]
      found == {i \in 1..Len(b.records) : b.records[i].name = name}
      honest ==
        IF found # {}
        THEN {Answered(HttpResponse(200, Entry(name, b.records[i].valid))) : i \in found}
        ELSE {Answered(HttpResponse(200, ArrayBody(<<>>, Undefined))),
              Answered(HttpResponse(200, Undefined)),
              Failed(NotFoundError)}
      odd ==
        {Answered(HttpResponse(st, body)) :
           st \in Statuses,
           body \in {Null, ArrayBody(<<Raw(name, TRUE)>>, Undefined), ObjectBody(Undefined),
                     ArrayBody(<<>>, Url(TRUE, Str(<<"2">>))), Entry(name, FALSE)}}
        \cup {Failed(TransportError), Failed(AbortError), Failed(ServiceError)}
  IN honest \cup (IF b.faulty THEN odd ELSE {})

Value(v) == [k |-> "value", v |-> v]
Done == [k |-> "done", v |-> Undefined]
Thrown(e) == [k |-> "error", v |-> e]

\* variant: only a missing body is promoted to not-found
getResource_NoEmptyCheck(name, outcome) ==
  IF outcome.t = "error" THEN Thrown(outcome.error)
  ELSE IF outcome.response.parsedBody \in {Undefined, Null} THEN Thrown(NotFoundError)
  ELSE Value(outcome.response)

\* getResource: the response returned, or the error thrown, once the GET
\* has settled with outcome
getResource(name, outcome) ==
  LET body == outcome.response.parsedBody IN
  IF outcome.t = "error" THEN Thrown(outcome.error)
  ELSE IF body \in {Undefined, Null} \/ (body.t = "array" /\ Len(body.items) = 0)
  THEN Thrown(NotFoundError)
  ELSE Value(outcome.response)

\* buildQueue, buildTopic, buildSubscriptionRuntimeProperties: the entity
\* decoded from the body, Undefined when the body does not decode
buildEntity(kind, shape, body) ==
  IF body.t = "entry" /\ body.valid
  THEN [t |-> kind, shape |-> shape, name |-> body.name]
  ELSE Undefined

\* the builder each fetch hands its response to: getQueue and getTopic use
\* buildQueueResponse and buildTopicResponse, getSubscription uses
\* buildSubscriptionRuntimePropertiesResponse
ResponseShape(kind) ==
  IF kind = "subscription" THEN "runtimeProperties" ELSE "description"

\* buildQueueResponse and its siblings: Object.assign(queue || {}, {_response})
buildQueueResponse(kind, response) ==
  LET queue == buildEntity(kind, ResponseShape(kind), response.parsedBody)
  IN [entity |-> IF Truthy(queue) THEN queue ELSE EmptyObject, _response |-> response]

\* getQueue, getTopic, getSubscription: the result once the GET has settled
getQueue(kind, name, outcome) ==
  LET fetched_ == getResource(name, outcome)
  IN IF fetched_.k = "error" THEN fetched_
     ELSE Value(buildQueueResponse(kind, fetched_.v))

Boolean(b) == [t |-> "boolean", b |-> b]

\* variant: every failure of the fetch is taken for "does not exist"
queueExists_AnyErrorIsFalse(fetch) ==
  IF fetch.k = "error" THEN Value(Boolean(FALSE)) ELSE Value(Boolean(TRUE))

\* queueExists, topicExists, subscriptionExists, given the result of the
\* fetch they await
queueExists(fetch) ==
  IF fetch.k = "error"
  THEN (IF fetch.v.code = "MessageEntityNotFoundError" THEN Value(Boolean(FALSE)) ELSE fetch)
  ELSE Value(Boolean(TRUE))

\* ------------------------------------------------- creating and updating
TypeError == [name |-> "TypeError", code |-> "none", statusCode |-> 0]
UpdateKinds == {"queue", "topic", "subscription", "rule"}

\* the values a caller sets forwardTo and forwardDeadLetteredMessagesTo to:
\* nothing, the empty string, the name of an entity, an absolute address
RelativeTarget == Str(<<"q">>)
AbsoluteTarget == Str(<<"s", "b", ":", "/", "/", "m", "/", "q">>)
ForwardInputs == {Undefined, EmptyString, RelativeTarget, AbsoluteTarget}

\* "sb://" + fullyQualifiedNamespace + "/"
endpointWithProtocol == <<"s", "b", ":", "/", "/", "n", "/">>

\* the token the credential hands out
Token == Str(<<"s", "a", "s">>)

\* a description as the caller passes it
Description(name, topicName, subscriptionName, forwardTo, forwardDead) ==
  [t |-> "object", name |-> name, topicName |-> topicName,
   subscriptionName |-> subscriptionName, forwardTo |-> forwardTo,
   forwardDeadLetteredMessagesTo |-> forwardDead]

NameInputs == {Undefined, EmptyString, Str(<<"A">>)}

\* the arguments update<Kind> is called with: values that are no objects,
\* and descriptions with or without their names
UpdateArgs(kind) ==
  {Undefined, Null, NumberValue(Fin(5, 1)), Str(<<"A">>)}
  \cup (CASE kind = "queue" ->
               { Description(n, Undefined, Undefined, f, d) :
                   n \in NameInputs, f \in ForwardInputs, d \in ForwardInputs }
          [] kind = "subscription" ->
               { Description(Undefined, tn, n, f, d) :
                   tn \in {Undefined, Str(<<"T">>)}, n \in NameInputs,
                   f \in ForwardInputs, d \in ForwardInputs }
          [] OTHER ->
               { Description(n, Undefined, Undefined, Undefined, Undefined) :
                   n \in NameInputs })

\* the arguments create<Kind> is called with: a name, or a description
\* that has its names
CreateArgs(kind) ==
  (IF kind \in {"queue", "topic"} THEN {Str(<<"A">>)} ELSE {})
  \cup { x \in UpdateArgs(kind) :
           /\ x.t = "object"
           /\ IF kind = "subscription"
              THEN Truthy(x.topicName) /\ Truthy(x.subscriptionName)
              ELSE Truthy(x.name) }

\* x.name, x.topicName, ...: reading a property of undefined or null
\* throws, a number or a string has no such property
ReadThrows(x) == x \in {Undefined, Null}
Property(x, field) == IF x.t = "object" THEN x[field] ELSE Undefined

\* isJSONLikeObject: the value is an object
isJSONLikeObject(value) == value.t = "object"

\* isAbsoluteUrl: the value starts with sb://, http:// or https://
isAbsoluteUrl(url) ==
  \E scheme \in { <<"s", "b", ":", "/", "/">>,
                   <<"h", "t", "t", "p", ":", "/", "/">>,
                   <<"h", "t", "t", "p", "s", ":", "/", "/">> } :
    Len(scheme) <= Len(url.s) /\ SubSeq(url.s, 1, Len(scheme)) = scheme

getRulePath(topicName, subscriptionName, ruleName) ==
  <<topicName, "Subscriptions", subscriptionName, "Rules", ruleName>>

\* the topic and the subscription updateRule and createRule are called with
RuleTopic == Str(<<"T">>)
RuleSubscription == Str(<<"S">>)

\* the resource name handed to putResource
ResourcePath(kind, x) ==
  CASE kind = "subscription" ->
         getSubscriptionPath(Property(x, "topicName"), Property(x, "subscriptionName"))
    [] kind = "rule" -> getRulePath(RuleTopic, RuleSubscription, Property(x, "name"))
    [] OTHER -> <<Property(x, "name")>>

\* buildQueueOptions, buildTopicOptions, buildSubscriptionOptions, and the
\* rule itself: the fields of the entity putResource looks at
buildQueueOptions(kind, x) ==
  IF kind \in {"queue", "subscription"}
  THEN [ForwardTo |-> Property(x, "forwardTo"),
        ForwardDeadLetteredMessagesTo |-> Property(x, "forwardDeadLetteredMessagesTo")]
  ELSE [ForwardTo |-> Undefined, ForwardDeadLetteredMessagesTo |-> Undefined]

NoRequest == [method |-> "none"]

\* variant: the token is fetched for each field that is set, and both
\* headers are set whenever it was fetched
putResource_TokenPerField(name, entityFields, isUpdate) ==
  LET f == entityFields
      n == (IF Truthy(f.ForwardTo) THEN 1 ELSE 0)
           + (IF Truthy(f.ForwardDeadLetteredMessagesTo) THEN 1 ELSE 0)
      sent(v) == IF Truthy(v) /\ ~isAbsoluteUrl(v)
                 THEN Str(endpointWithProtocol \o v.s) ELSE v
  IN [request |->
        [method |-> "PUT", name |-> name,
         headers |->
           [IfMatch |-> IF isUpdate THEN Str(<<"*">>) ELSE Undefined,
            ServiceBusSupplementaryAuthorization |->
              IF n > 0 THEN Token ELSE Undefined,
            ServiceBusDlqSupplementaryAuthorization |->
              IF n > 0 THEN Token ELSE Undefined],
         body |-> [ForwardTo |-> sent(f.ForwardTo),
                   ForwardDeadLetteredMessagesTo |-> sent(f.ForwardDeadLetteredMessagesTo)]],
      tokenCalls |-> n]

\* putResource: the PUT request it sends and the number of times it asks
\* the credential for a token
putResource(name, entityFields, isUpdate) ==
  LET f == entityFields
      sent(v) == IF Truthy(v) /\ ~isAbsoluteUrl(v)
                 THEN Str(endpointWithProtocol \o v.s) ELSE v
  IN [request |->
        [method |-> "PUT", name |-> name,
         headers |->
           [IfMatch |-> IF isUpdate THEN Str(<<"*">>) ELSE Undefined,
            ServiceBusSupplementaryAuthorization |->
              IF Truthy(f.ForwardTo) THEN Token ELSE Undefined,
            ServiceBusDlqSupplementaryAuthorization |->
              IF Truthy(f.ForwardDeadLetteredMessagesTo) THEN Token ELSE Undefined],
         body |-> [ForwardTo |-> sent(f.ForwardTo),
                   ForwardDeadLetteredMessagesTo |-> sent(f.ForwardDeadLetteredMessagesTo)]],
      tokenCalls |-> IF Truthy(f.ForwardTo) \/ Truthy(f.ForwardDeadLetteredMessagesTo)
                     THEN 1 ELSE 0]

Threw(error) == [throws |-> TRUE, error |-> error, request |-> NoRequest, tokenCalls |-> 0]
Sent(put) ==
  [throws |-> FALSE, error |-> NoError, request |-> put.request, tokenCalls |-> put.tokenCalls]

\* `!queue.name`; for a subscription `!topicName || !subscriptionName`
LacksName(kind, x) ==
  IF kind = "subscription"
  THEN ~Truthy(Property(x, "topicName")) \/ ~Truthy(Property(x, "subscriptionName"))
  ELSE ~Truthy(Property(x, "name"))

\* variant: the test of the name left out
updateQueue_NoNameCheck(kind, x) ==
  IF ReadThrows(x) THEN Threw(TypeError)
  ELSE IF ~isJSONLikeObject(x) \/ x \in {Undefined, Null} THEN Threw(TypeError)
  ELSE Sent(putResource(ResourcePath(kind, x), buildQueueOptions(kind, x), TRUE))

\* updateQueue, updateTopic, updateSubscription, updateRule up to the
\* request: the log line reads the name of the argument, then the argument
\* and its name are tested, then putResource is called
updateQueue(kind, x) ==
  IF ReadThrows(x) THEN Threw(TypeError)
  ELSE IF ~isJSONLikeObject(x) \/ x \in {Undefined, Null} THEN Threw(TypeError)
  ELSE IF LacksName(kind, x) THEN Threw(TypeError)
  ELSE Sent(putResource(ResourcePath(kind, x), buildQueueOptions(kind, x), TRUE))

\* createQueue, createTopic, createSubscription, createRule up to the
\* request: a name given as a string stands for the description {name}
createQueue(kind, x) ==
  LET queue == IF x.t = "string"
               THEN Description(x, Undefined, Undefined, Undefined, Undefined) ELSE x
  IN IF ReadThrows(queue) THEN Threw(TypeError)
     ELSE Sent(putResource(ResourcePath(kind, queue), buildQueueOptions(kind, queue), FALSE))

\* how the service settles a PUT: it describes the entity written, or
\* rejects the request
PutOutcomes(b, request) ==
  {Answered(HttpResponse(200, Entry(request.name[Len(request.name)], TRUE))),
   Failed(ServiceError)}
  \cup (IF b.faulty THEN {Answered(HttpResponse(200, Null)), Failed(TransportError)} ELSE {})

\* buildQueueResponse, buildTopicResponse, buildSubscriptionResponse,
\* buildRuleResponse on the response to a PUT
buildSubscriptionResponse(kind, response) ==
  LET entity == buildEntity(kind, "description", response.parsedBody)
  IN [entity |-> IF Truthy(entity) THEN entity ELSE EmptyObject, _response |-> response]

\* ------------------------------------------------------------- the state
VARIABLES
  backend,      \* the service the client talks to
  iter,         \* iter[s]: the async generator behind sequence s
  delivered,    \* delivered[s]: the results of the next() calls of s, in order
  requests,     \* requests[s]: the list requests s has issued, in order
  outstanding,  \* outstanding[s]: list requests of s issued and not yet settled
  received,     \* received[s]: how the requests of s were settled, in order
  fetched,      \* fetched[s]: the pages s has built from responses, in order
  issuedAt,     \* issuedAt[s][k]: values delivered by s when request k was issued
  faults,       \* the deviations of the service so far
  call          \* the single-entity operation (get, exists) last called

vars == <<backend, iter, delivered, requests, outstanding, received, fetched, issuedAt,
          faults, call>>


NoIter ==
  [kind |-> "none", state |-> "suspendedStart", marker |-> Undefined,
   maxPageSize |-> Undefined, token |-> Undefined, segment |-> <<>>, pending |-> 0,
   handles |-> 0, obtainedAt |-> 0]

\* the values (elements or pages) among the results delivered
Values(results) ==
  LET vs == SelectSeq(results, LAMBDA r : r.k = "value")
  IN [i \in 1..Len(vs) |-> vs[i].v]

Repeat(x, n) == [i \in 1..n |-> x]

\* ------------------------------------------------- the async generators
\* variant: `while (true)`
listQueuesPageContinues_Always(marker) == TRUE

\* listQueuesPage, `while (marker)`: the loop fetches again
listQueuesPageContinues(marker) == Truthy(marker)

\* variant: maxCount is not passed on
listQueuesPageRequest_NoLimit(marker, options) ==
  listQueues([skip |-> ToNumber(marker), maxCount |-> Undefined])

\* listQueuesPage, the call of listQueues in the loop body
listQueuesPageRequest(marker, options) ==
  listQueues([skip |-> ToNumber(marker), maxCount |-> options.maxPageSize])

\* variant: listQueuesPage yields each page twice
listQueuesAllYields_PageTwice(kind, page) ==
  IF kind = "flat" THEN page.items ELSE <<page, page>>

\* variant: `yield segment[0]` in place of `yield* segment`
listQueuesAllYields_FirstOnly(kind, page) ==
  IF kind = "flat"
  THEN (IF page.items = <<>> THEN <<>> ELSE <<Head(page.items)>>)
  ELSE <<page>>

\* what one page makes the generator yield: listQueuesPage yields the page,
\* listQueuesAll yields its elements one by one (yield* segment)
listQueuesAllYields(kind, page) ==
  IF kind = "flat" THEN page.items ELSE <<page>>

\* The generator runs until it suspends: it hands the values it has to the
\* queued next() calls, oldest first; with calls still queued and nothing
\* left to yield it evaluates the loop condition and either fetches again
\* or returns, which settles every queued call with done.
Drain(it) ==
  LET m == Min(it.pending, Len(it.segment))
      out == [i \in 1..m |-> Value(it.segment[i])]
      rest == SubSeq(it.segment, m + 1, Len(it.segment))
      p == it.pending - m
  IN IF p = 0
     THEN [iter |-> [it EXCEPT !.segment = rest, !.pending = 0, !.state = "suspendedYield"],
           out |-> out, issue |-> FALSE]
     ELSE IF listQueuesPageContinues(it.marker)
     THEN [iter |-> [it EXCEPT !.segment = rest, !.pending = p, !.state = "awaiting"],
           out |-> out, issue |-> TRUE]
     ELSE [iter |-> [it EXCEPT !.segment = rest, !.pending = 0, !.state = "completed"],
           out |-> out \o Repeat(Done, p), issue |-> FALSE]

\* variant: a next() call made while a fetch is awaited starts another fetch
Resume_Eager(it) ==
  CASE it.state = "completed" ->
         [iter |-> it, out |-> <<Done>>, issue |-> FALSE]
    [] it.state = "awaiting" ->
         [iter |-> [it EXCEPT !.pending = @ + 1], out |-> <<>>, issue |-> TRUE]
    [] it.state = "suspendedStart" ->
         [iter |-> [it EXCEPT !.pending = 1, !.state = "awaiting"],
          out |-> <<>>, issue |-> TRUE]
    [] it.state = "suspendedYield" ->
         Drain([it EXCEPT !.pending = 1])

\* iter.next() on a generator in state it.state
Resume(it) ==
  CASE it.state = "completed" ->
         [iter |-> it, out |-> <<Done>>, issue |-> FALSE]
    [] it.state = "awaiting" ->
         [iter |-> [it EXCEPT !.pending = @ + 1], out |-> <<>>, issue |-> FALSE]
    [] it.state = "suspendedStart" ->
         [iter |-> [it EXCEPT !.pending = 1, !.state = "awaiting"],
          out |-> <<>>, issue |-> TRUE]
    [] it.state = "suspendedYield" ->
         Drain([it EXCEPT !.pending = 1])

\* variant: listQueuesAll returns at the first segment without elements
Continue_EndOnEmpty(it, page) ==
  Drain([it EXCEPT !.marker = IF it.kind = "flat" /\ page.items = <<>>
                              THEN Undefined ELSE page.continuationToken,
                   !.segment = listQueuesAllYields(it.kind, page)])

\* variant: `marker = listResponse.continuationToken` left out
Continue_KeepMarker(it, page) ==
  Drain([it EXCEPT !.segment = listQueuesAllYields(it.kind, page)])

\* the awaited listQueues call of the generator returned page
Continue(it, page) ==
  Drain([it EXCEPT !.marker = page.continuationToken,
                   !.segment = listQueuesAllYields(it.kind, page)])

\* variant: the generator catches the error and fetches the same window again
Throw_Retry(it, error) ==
  [iter |-> [it EXCEPT !.state = "awaiting"], out |-> <<>>, issue |-> TRUE]

\* the awaited listQueues call threw: the generator ends, the oldest queued
\* call gets the error, the others get done
Throw(it, error) ==
  [iter |-> [it EXCEPT !.pending = 0, !.state = "completed", !.segment = <<>>],
   out |-> <<Thrown(error)>> \o Repeat(Done, it.pending - 1),
   issue |-> FALSE]


\* what happened when the generator took a step: the outcome of the request
\* that settled (if one did), the page built from it (if one was), and
\* whether the service deviated
Event(outcomes, pages, deviations) ==
  [outcomes |-> outcomes, pages |-> pages, deviations |-> deviations]

\* variant: the generators of all sequences share one marker
Apply_SharedMarker(s, r, ev) ==
  LET results == delivered[s] \o r.out IN
  /\ faults' = faults + ev.deviations
  /\ received' = [received EXCEPT ![s] = @ \o ev.outcomes]
  /\ iter' = [q \in SeqIds |->
        IF q = s THEN r.iter ELSE [iter[q] EXCEPT !.marker = r.iter.marker]]
  /\ delivered' = [delivered EXCEPT ![s] = results]
  /\ fetched' = [fetched EXCEPT ![s] = @ \o ev.pages]
  /\ requests' = [requests EXCEPT ![s] =
        IF r.issue
        THEN Append(@, listQueuesPageRequest(r.iter.marker, r.iter))
        ELSE @]
  /\ issuedAt' = [issuedAt EXCEPT ![s] =
        IF r.issue THEN Append(@, Len(Values(results))) ELSE @]
  /\ outstanding' = [outstanding EXCEPT ![s] =
        @ - Len(ev.outcomes) + (IF r.issue THEN 1 ELSE 0)]
  /\ UNCHANGED <<backend, call>>

\* the step r of the generator of s takes effect
Apply(s, r, ev) ==
  LET results == delivered[s] \o r.out IN
  /\ faults' = faults + ev.deviations
  /\ received' = [received EXCEPT ![s] = @ \o ev.outcomes]
  /\ iter' = [iter EXCEPT ![s] = r.iter]
  /\ delivered' = [delivered EXCEPT ![s] = results]
  /\ fetched' = [fetched EXCEPT ![s] = @ \o ev.pages]
  /\ requests' = [requests EXCEPT ![s] =
        IF r.issue
        THEN Append(@, listQueuesPageRequest(r.iter.marker, r.iter))
        ELSE @]
  /\ issuedAt' = [issuedAt EXCEPT ![s] =
        IF r.issue THEN Append(@, Len(Values(results))) ELSE @]
  /\ outstanding' = [outstanding EXCEPT ![s] =
        @ - Len(ev.outcomes) + (IF r.issue THEN 1 ELSE 0)]
  /\ UNCHANGED <<backend, call>>

\* ---------------------------------------------------------------- inputs
Chars(str) ==
  CASE str = "" -> <<>>
    [] str = "-1" -> <<"-", "1">>
    [] str = "abc" -> <<"a", "b", "c">>
    [] str = "1.5" -> <<"1", ".", "5">>
    [] str = "0" -> <<"0">>
    [] str = "2" -> <<"2">>
    [] str = "4" -> <<"4">>

\* the continuation tokens a caller makes up
TokenInputs ==
  { Undefined, Null, NumberValue(Fin(5, 1)), [t |-> "object"], EmptyString,
    Str(Chars("-1")), Str(Chars("abc")), Str(Chars("1.5")) }

\* the continuation tokens a caller has seen on the pages delivered to it
CapturedTokens ==
  UNION { { delivered[q][i].v.continuationToken :
              i \in {j \in 1..Len(delivered[q]) : delivered[q][j].k = "value"} } :
            q \in {x \in SeqIds : iter[x].kind = "page"} }

PageSizeInputs == {Undefined} \cup {NumberValue(Fin(k, 1)) : k \in 1..MaxPageSize}

\* the settings byPage is called with: a made-up token without a page size,
\* or no token or a captured one with any page size
SettingsInputs ==
  { [continuationToken |-> token, maxPageSize |-> Undefined] : token \in TokenInputs }
  \cup { [continuationToken |-> token, maxPageSize |-> size] :
           token \in {Undefined} \cup CapturedTokens, size \in PageSizeInputs }

NoOutcome == [t |-> "none", response |-> Undefined, error |-> NoError]
NoResult == [k |-> "none", v |-> Undefined]
NoCall ==
  [op |-> "none", kind |-> "none", name |-> <<>>, state |-> "idle",
   outcome |-> NoOutcome, fetch |-> NoResult, result |-> NoResult,
   arg |-> Undefined, request |-> NoRequest, tokenCalls |-> 0]

\* ----------------------------------------------------------------- actions
Init ==
  /\ backend \in HonestBackends \cup FaultyBackends
  /\ iter = [s \in SeqIds |-> NoIter]
  /\ delivered = [s \in SeqIds |-> <<>>]
  /\ requests = [s \in SeqIds |-> <<>>]
  /\ outstanding = [s \in SeqIds |-> 0]
  /\ received = [s \in SeqIds |-> <<>>]
  /\ fetched = [s \in SeqIds |-> <<>>]
  /\ issuedAt = [s \in SeqIds |-> <<>>]
  /\ faults = 0
  /\ call = NoCall

\* the sequences are created in order; a faulty service is probed with one
Creatable(s) ==
  /\ iter[s].kind = "none"
  /\ \A q \in SeqIds : q < s => iter[q].kind # "none"
  /\ backend.faulty => s = 1

\* variant: getQueues() sends the first list request itself
getQueues_Eager(s) ==
  /\ Creatable(s)
  /\ iter' = [iter EXCEPT ![s] = [NoIter EXCEPT !.kind = "flat", !.state = "awaiting"]]
  /\ requests' = [requests EXCEPT ![s] = <<listQueuesPageRequest(Undefined, NoIter)>>]
  /\ issuedAt' = [issuedAt EXCEPT ![s] = <<0>>]
  /\ outstanding' = [outstanding EXCEPT ![s] = 1]
  /\ UNCHANGED <<backend, delivered, received, fetched, faults, call>>

\* getQueues(): the flat iterator iter = listQueuesAll(options)
getQueues(s) ==
  /\ Creatable(s)
  /\ iter' = [iter EXCEPT ![s] = [NoIter EXCEPT !.kind = "flat"]]
  /\ UNCHANGED <<backend, delivered, requests, outstanding, received, fetched,
                 issuedAt, faults, call>>

\* variant: byPage without a token starts where the flat iterator stands
byPage_AtFlatPosition(s, token, maxPageSize) ==
  /\ Creatable(s)
  /\ iter' = [iter EXCEPT ![s] =
        IF throwIfInvalidContinuationToken(token)
        THEN [NoIter EXCEPT !.kind = "rejected", !.token = token,
                            !.state = "completed"]
        ELSE [NoIter EXCEPT !.kind = "page", !.token = token,
                            !.marker = IF token = Undefined /\ s > 1 /\ iter[1].kind = "flat"
                                       THEN iter[1].marker ELSE token,
                            !.maxPageSize = maxPageSize]]
  /\ UNCHANGED <<backend, delivered, requests, outstanding, received, fetched,
                 issuedAt, faults, call>>

\* variant: byPage starts listQueuesPage without the continuation token
byPage_FromStart(s, token, maxPageSize) ==
  /\ Creatable(s)
  /\ iter' = [iter EXCEPT ![s] =
        IF throwIfInvalidContinuationToken(token)
        THEN [NoIter EXCEPT !.kind = "rejected", !.token = token,
                            !.state = "completed"]
        ELSE [NoIter EXCEPT !.kind = "page", !.token = token, !.marker = Undefined,
                            !.maxPageSize = maxPageSize]]
  /\ UNCHANGED <<backend, delivered, requests, outstanding, received, fetched,
                 issuedAt, faults, call>>

\* getQueues().byPage({continuationToken: token, maxPageSize: maxPageSize})
byPage(s, token, maxPageSize) ==
  /\ Creatable(s)
  /\ iter' = [iter EXCEPT ![s] =
        IF throwIfInvalidContinuationToken(token)
        THEN [NoIter EXCEPT !.kind = "rejected", !.token = token,
                            !.state = "completed"]
        ELSE [NoIter EXCEPT !.kind = "page", !.token = token, !.marker = token,
                            !.maxPageSize = maxPageSize]]
  /\ UNCHANGED <<backend, delivered, requests, outstanding, received, fetched,
                 issuedAt, faults, call>>

\* the consumer calls next() on sequence s
next(s) ==
  /\ iter[s].kind \in {"flat", "page"}
  /\ iter[s].pending < MaxPending
  /\ Len(delivered[s]) + iter[s].pending < MaxCalls
  /\ Apply(s, Resume(iter[s]), Event(<<>>, <<>>, 0))

\* the awaited listQueues call of s settles with response
Settle(s, response, deviations) ==
  LET built == buildListQueuesResponse(response) IN
  IF built.ok
  THEN Apply(s, Continue(iter[s], built.page),
             Event(<<Answered(response)>>, <<built.page>>, deviations))
  ELSE Apply(s, Throw(iter[s], built.error),
             Event(<<Answered(response)>>, <<>>, deviations))

\* the service answers the list request of s
Respond(s) ==
  /\ outstanding[s] > 0
  /\ \E response \in Responses(backend, requests[s][Len(requests[s])]) :
       Settle(s, response, 0)

\* a faulty service answers the list request of s with something else
RespondOddly(s) ==
  /\ outstanding[s] > 0
  /\ faults < MaxFaults
  /\ \E response \in OddResponses(backend, requests[s][Len(requests[s])]) :
       Settle(s, response, 1)

\* variant: listQueues catches the rejection and throws a parse error
Reject_Wrapped(s) ==
  /\ outstanding[s] > 0
  /\ \E error \in Rejections(backend, requests[s][Len(requests[s])]) :
       /\ error # ServiceError => faults < MaxFaults
       /\ Apply(s, Throw(iter[s], ParseError(error.statusCode)),
                Event(<<Failed(error)>>, <<>>, IF error = ServiceError THEN 0 ELSE 1))

\* the list request of s fails or is aborted
Reject(s) ==
  /\ outstanding[s] > 0
  /\ \E error \in Rejections(backend, requests[s][Len(requests[s])]) :
       /\ error # ServiceError => faults < MaxFaults
       /\ Apply(s, Throw(iter[s], error),
                Event(<<Failed(error)>>, <<>>, IF error = ServiceError THEN 0 ELSE 1))

Next ==
  \E s \in SeqIds :
    \/ getQueues(s)
    \/ \E settings \in SettingsInputs :
         byPage(s, settings.continuationToken, settings.maxPageSize)
    \/ next(s)
    \/ Respond(s)
    \/ RespondOddly(s)
    \/ Reject(s)

Spec == Init /\ [][Next]_vars

\* ------------------------------------------- the iterator of a sequence
\* variant: [Symbol.asyncIterator]() makes a new listQueuesAll generator
asyncIterator_Restart(s) ==
  /\ iter[s].kind = "flat"
  /\ iter[s].handles < MaxHandles
  /\ iter' = [iter EXCEPT ![s] =
        IF outstanding[s] = 0
        THEN [NoIter EXCEPT !.kind = "flat", !.handles = iter[s].handles + 1,
                            !.obtainedAt = Len(delivered[s])]
        ELSE [@ EXCEPT !.handles = @ + 1, !.obtainedAt = Len(delivered[s])]]
  /\ UNCHANGED <<backend, delivered, requests, outstanding, received, fetched,
                 issuedAt, faults, call>>

\* [Symbol.asyncIterator]() on the object getQueues() returned: `return
\* this`, the consumer goes on with the same object and its one generator
asyncIterator(s) ==
  /\ iter[s].kind = "flat"
  /\ iter[s].handles < MaxHandles
  /\ iter' = [iter EXCEPT ![s] =
        [@ EXCEPT !.handles = @ + 1, !.obtainedAt = Len(delivered[s])]]
  /\ UNCHANGED <<backend, delivered, requests, outstanding, received, fetched,
                 issuedAt, faults, call>>

\* flat iteration of the objects of two getQueues() calls, the iterator of
\* each obtained again at any moment, against a service that follows the
\* contract
FlatInit == Init /\ ~backend.faulty

FlatNext ==
  \E s \in SeqIds :
    \/ getQueues(s)
    \/ asyncIterator(s)
    \/ next(s)
    \/ Respond(s)

FlatSpec == FlatInit /\ [][FlatNext]_vars

\* ------------------------------------------- single-entity operations
\* getQueue(name), getTopic(name), getSubscription(topic, name) is called
\* and sends its GET
get(kind, name) ==
  /\ call.state # "awaiting"
  /\ call' = [NoCall EXCEPT !.op = "get", !.kind = kind, !.name = name,
                            !.state = "awaiting"]
  /\ UNCHANGED <<backend, iter, delivered, requests, outstanding, received, fetched,
                 issuedAt, faults>>

\* queueExists(name), topicExists(name), subscriptionExists(topic, name) is
\* called and sends the GET of the fetch it awaits
exists(kind, name) ==
  /\ call.state # "awaiting"
  /\ call' = [NoCall EXCEPT !.op = "exists", !.kind = kind, !.name = name,
                            !.state = "awaiting"]
  /\ UNCHANGED <<backend, iter, delivered, requests, outstanding, received, fetched,
                 issuedAt, faults>>

\* update<Kind>(arg) is called: it throws, or sends the PUT and awaits it
update(kind, arg) ==
  /\ call.state # "awaiting"
  /\ LET r == updateQueue(kind, arg)
     IN call' = [NoCall EXCEPT !.op = "update", !.kind = kind, !.arg = arg,
                               !.state = IF r.throws THEN "settled" ELSE "awaiting",
                               !.result = IF r.throws THEN Thrown(r.error) ELSE NoResult,
                               !.request = r.request, !.tokenCalls = r.tokenCalls]
  /\ UNCHANGED <<backend, iter, delivered, requests, outstanding, received, fetched,
                 issuedAt, faults>>

\* create<Kind>(arg) is called and sends the PUT
create(kind, arg) ==
  /\ call.state # "awaiting"
  /\ LET r == createQueue(kind, arg)
     IN call' = [NoCall EXCEPT !.op = "create", !.kind = kind, !.arg = arg,
                               !.state = IF r.throws THEN "settled" ELSE "awaiting",
                               !.result = IF r.throws THEN Thrown(r.error) ELSE NoResult,
                               !.request = r.request, !.tokenCalls = r.tokenCalls]
  /\ UNCHANGED <<backend, iter, delivered, requests, outstanding, received, fetched,
                 issuedAt, faults>>

\* the PUT settles and the operation returns or throws
CompletePut ==
  /\ call.state = "awaiting"
  /\ call.op \in {"update", "create"}
  /\ \E outcome \in PutOutcomes(backend, call.request) :
       call' = [call EXCEPT
                  !.state = "settled", !.outcome = outcome,
                  !.result = IF outcome.t = "error" THEN Thrown(outcome.error)
                             ELSE Value(buildSubscriptionResponse(call.kind,
                                                                  outcome.response))]
  /\ UNCHANGED <<backend, iter, delivered, requests, outstanding, received, fetched,
                 issuedAt, faults>>

\* the GET settles and the operation returns or throws
Complete ==
  /\ call.state = "awaiting"
  /\ call.op \in {"get", "exists"}
  /\ \E outcome \in EntityOutcomes(backend, call.name) :
       LET fetch == getQueue(call.kind, call.name, outcome)
       IN call' = [call EXCEPT !.state = "settled", !.outcome = outcome,
                               !.fetch = fetch,
                               !.result = IF call.op = "exists"
                                          THEN queueExists(fetch) ELSE fetch]
  /\ UNCHANGED <<backend, iter, delivered, requests, outstanding, received, fetched,
                 issuedAt, faults>>

EntityNext ==
  \/ \E kind \in EntityKinds : \E name \in EntityPaths(kind) : get(kind, name)
  \/ \E kind \in EntityKinds : \E name \in EntityPaths(kind) : exists(kind, name)
  \/ \E kind \in UpdateKinds : \E arg \in UpdateArgs(kind) : update(kind, arg)
  \/ \E kind \in UpdateKinds : \E arg \in CreateArgs(kind) : create(kind, arg)
  \/ Complete
  \/ CompletePut

EntitySpec == Init /\ [][EntityNext]_vars

TypeOK ==
  /\ \A s \in SeqIds : iter[s].kind \in {"none", "flat", "page", "rejected"}
  /\ \A s \in SeqIds : outstanding[s] \in 0..1

\* ------------------------------------------------------------ properties
RECURSIVE Flatten(_)
Flatten(pages) ==
  IF pages = <<>> THEN <<>> ELSE Head(pages).items \o Flatten(Tail(pages))

IsPrefix(a, b) == Len(a) <= Len(b) /\ a = SubSeq(b, 1, Len(a))
Completed(s) == iter[s].state = "completed"
NoErrors(s) == \A i \in 1..Len(delivered[s]) : delivered[s][i].k # "error"
LastIsDone(s) == delivered[s] # <<>> /\ delivered[s][Len(delivered[s])] = Done
PageSize(k) == NumberValue(Fin(k, 1))
Names(items) == {items[i].name : i \in 1..Len(items)}

\* C1: against a service that follows the contract, the elements a flat
\* iteration delivers are the concatenation, in order, of the elements of
\* the pages a byPage iteration from the start delivers, whatever the page
\* size: both deliver every decodable record once, in the service's order.
C1_FlatEqualsConcatenatedPages ==
  \A a, b \in SeqIds :
    (~backend.faulty /\ iter[a].kind = "flat" /\ iter[b].kind = "page"
       /\ iter[b].token = Undefined)
    => LET elems == Values(delivered[a])
           paged == Flatten(Values(delivered[b]))
           all == DecodeAll(backend.records)
       IN /\ IsPrefix(elems, all)
          /\ IsPrefix(paged, all)
          /\ (Completed(a) /\ Completed(b)) => (elems = paged /\ elems = all)

C1_Witness ==
  \E a, b \in SeqIds :
    /\ ~backend.faulty /\ iter[a].kind = "flat" /\ iter[b].kind = "page"
    /\ iter[b].token = Undefined /\ iter[b].maxPageSize = PageSize(1)
    /\ Completed(a) /\ Completed(b)
    /\ Len(Values(delivered[a])) >= 3 /\ Len(Values(delivered[b])) >= 3

HasNoNextLink(page) == page._response.parsedBody.nextLink = Undefined

\* C2: a page built from a response without a next link is the last one of
\* its sequence: no page follows it, no list request is issued after the
\* one it answers, and the sequence ends without an error.
C2_NoNextLinkEndsSequence ==
  \A s \in SeqIds : \A k \in 1..Len(fetched[s]) :
    HasNoNextLink(fetched[s][k])
    => /\ Len(fetched[s]) = k
       /\ Len(requests[s]) = k
       /\ outstanding[s] = 0
       /\ NoErrors(s)
       /\ IsPrefix(Values(delivered[s]),
                   IF iter[s].kind = "flat" THEN Flatten(fetched[s]) ELSE fetched[s])

C2_Witness ==
  \E s \in SeqIds :
    /\ Len(fetched[s]) >= 2
    /\ HasNoNextLink(fetched[s][Len(fetched[s])])
    /\ Completed(s) /\ LastIsDone(s)

\* C3: against a service that follows the contract, a byPage iteration
\* started with the token carried by page k of another byPage iteration
\* with the same maxPageSize delivers the pages that follow page k there,
\* and none of the elements of the pages up to page k.
C3_ResumeReproducesRemainder ==
  \A a, b \in SeqIds : \A k \in 1..Len(Values(delivered[a])) :
    LET pa == Values(delivered[a])
        pb == Values(delivered[b])
    IN (/\ a # b /\ ~backend.faulty
        /\ iter[a].kind = "page" /\ iter[b].kind = "page"
        /\ iter[a].maxPageSize = iter[b].maxPageSize
        /\ Truthy(pa[k].continuationToken)
        /\ iter[b].token = pa[k].continuationToken)
       => /\ \A j \in 1..Len(pb) : k + j <= Len(pa) => pb[j] = pa[k + j]
          /\ \A j \in 1..Len(pb) : \A i \in 1..k :
               Names(pb[j].items) \cap Names(pa[i].items) = {}
          /\ (Completed(a) /\ Completed(b)) => Len(pb) = Len(pa) - k

C3_Witness ==
  \E a, b \in SeqIds :
    LET pa == Values(delivered[a])
        pb == Values(delivered[b])
    IN /\ a # b /\ ~backend.faulty
       /\ iter[a].kind = "page" /\ iter[b].kind = "page"
       /\ iter[a].maxPageSize = iter[b].maxPageSize
       /\ Len(pa) >= 3 /\ Len(pb) >= 2
       /\ iter[b].token = pa[1].continuationToken
       /\ Truthy(iter[b].token)
       /\ Completed(a) /\ Completed(b)

CalledByPage(s) == iter[s].kind \in {"page", "rejected"}

\* C4: byPage called with the token "-1", "abc" or a truthy value that is
\* not a string throws at once, and no list request is issued; called with
\* undefined it does not throw and the first list request is for offset 0.
C4_InvalidTokenThrowsSynchronously ==
  \A s \in SeqIds :
    CalledByPage(s)
    => /\ ( \/ iter[s].token \in {Str(Chars("-1")), Str(Chars("abc"))}
            \/ (iter[s].token.t # "string" /\ Truthy(iter[s].token)) )
          => (iter[s].kind = "rejected" /\ requests[s] = <<>> /\ delivered[s] = <<>>)
       /\ iter[s].token = Undefined
          => /\ iter[s].kind = "page"
             /\ requests[s] # <<>>
                => (requests[s][1].query.skip = Undefined
                    /\ QuerySkip(requests[s][1]) = Fin(0, 1))

C4_Witness ==
  /\ \E s \in SeqIds :
       /\ iter[s].kind = "rejected"
       /\ iter[s].token \in {Str(Chars("abc")), Str(Chars("-1")), NumberValue(Fin(5, 1))}
  /\ \E s \in SeqIds :
       iter[s].kind = "page" /\ iter[s].token = Undefined /\ Len(requests[s]) >= 1

IsNonNegativeIntegerText(cs) == cs # <<>> /\ AllDigits(cs)

\* C5: byPage accepts a continuation token exactly when it is undefined or
\* a string that is the text of an integer >= 0; the empty string, "1.5",
\* null and numbers are rejected.
C5_AcceptsExactlyIntegerTokens ==
  \A s \in SeqIds :
    CalledByPage(s)
    => (iter[s].kind = "page"
        <=> \/ iter[s].token = Undefined
            \/ (iter[s].token.t = "string" /\ IsNonNegativeIntegerText(iter[s].token.s)))

Errors(s) == SelectSeq(delivered[s], LAMBDA r : r.k = "error")
YieldedBy(s, n) ==
  IF iter[s].kind = "flat" THEN Flatten(SubSeq(fetched[s], 1, n))
  ELSE SubSeq(fetched[s], 1, n)

\* C6: a list response whose parsed body is not an array makes the listing
\* fail with a RestError of code PARSE_ERROR and of the status of that
\* response; no page is built or yielded for it.
C6_NonArrayBodyIsParseError ==
  \A s \in SeqIds : \A k \in 1..Len(received[s]) :
    LET o == received[s][k] IN
    (o.t = "response" /\ o.response.parsedBody.t # "array")
    => /\ k = Len(received[s])
       /\ Len(fetched[s]) = k - 1
       /\ Errors(s) = <<Thrown(ParseError(o.response.status))>>
       /\ Values(delivered[s]) = YieldedBy(s, k - 1)
       /\ Completed(s)

C6_Witness ==
  \E s \in SeqIds :
    /\ received[s] # <<>>
    /\ LET o == received[s][Len(received[s])]
       IN /\ o.t = "response" /\ o.response.parsedBody.t = "object"
          /\ o.response.status = 206
    /\ Errors(s) = <<Thrown(ParseError(206))>>

IsEmptyArray(response) ==
  /\ response.parsedBody.t = "array"
  /\ response.parsedBody.items = <<>>
  /\ response.parsedBody.nextLink = Undefined

\* C7: a list response whose parsed body is the empty array [] yields one
\* page with no elements and no continuation token; that page is the last,
\* no request follows it and no error is raised.
C7_EmptyArrayIsLastEmptyPage ==
  \A s \in SeqIds : \A k \in 1..Len(received[s]) :
    LET o == received[s][k] IN
    (o.t = "response" /\ IsEmptyArray(o.response))
    => /\ k = Len(received[s])
       /\ Len(fetched[s]) = k
       /\ fetched[s][k] = Page(<<>>, Undefined, o.response)
       /\ Len(requests[s]) = k
       /\ outstanding[s] = 0
       /\ NoErrors(s)
       /\ IsPrefix(Values(delivered[s]), YieldedBy(s, k))

C7_Witness ==
  \E s \in SeqIds :
    /\ iter[s].kind = "page"
    /\ received[s] # <<>>
    /\ LET o == received[s][Len(received[s])]
       IN o.t = "response" /\ IsEmptyArray(o.response)
    /\ Values(delivered[s]) = fetched[s]
    /\ Completed(s) /\ LastIsDone(s)

\* C8: a sequence has at most one list request in flight, and it issues
\* the request for page k+1 only when everything page k yields (the page,
\* or in flat mode each of its elements) has been delivered, also when
\* next() is called again before the earlier calls have settled.
C8_OneRequestAtATime ==
  \A s \in SeqIds :
    /\ outstanding[s] <= 1
    /\ \A k \in 1..Len(requests[s]) :
         /\ Len(fetched[s]) >= k - 1
         /\ issuedAt[s][k] = Len(YieldedBy(s, k - 1))

C8_Witness ==
  \E s \in SeqIds :
    /\ iter[s].kind = "flat"
    /\ iter[s].pending >= 2
    /\ outstanding[s] = 1
    /\ Len(requests[s]) >= 2
    /\ issuedAt[s][Len(requests[s])] >= 2

\* C9: in a byPage sequence the first request takes its skip from the
\* token supplied (no $skip when it is undefined), each later one from the
\* token of the page yielded just before it, and all requests have the
\* same resource path and the limit maxPageSize.
C9_RequestsFollowTokens ==
  \A s \in SeqIds :
    iter[s].kind = "page"
    => \A k \in 1..Len(requests[s]) :
         LET req == requests[s][k]
             tok == IF k = 1 THEN iter[s].token ELSE fetched[s][k - 1].continuationToken
         IN /\ req.options.skip = ToNumber(tok)
            /\ tok = Undefined => req.query.skip = Undefined
            /\ req.name = QueuesPath
            /\ req.options.maxCount = iter[s].maxPageSize
            /\ req.query.top = requests[s][1].query.top

C9_Witness ==
  \E s \in SeqIds :
    /\ iter[s].kind = "page" /\ iter[s].maxPageSize = PageSize(2)
    /\ iter[s].token = Undefined
    /\ Len(requests[s]) >= 3
    /\ requests[s][1].query = [skip |-> Undefined, top |-> Str(Chars("2"))]
    /\ requests[s][2].query = [skip |-> Str(Chars("2")), top |-> Str(Chars("2"))]
    /\ requests[s][3].query = [skip |-> Str(Chars("4")), top |-> Str(Chars("2"))]

ExampleBackend ==
  [records |-> Collection(5, 0), defTop |-> ServerPageSize, faulty |-> FALSE]

Brief(pages) ==
  [i \in 1..Len(pages) |->
     [items |-> [j \in 1..Len(pages[i].items) |-> pages[i].items[j].name],
      token |-> pages[i].continuationToken]]

ExamplePages ==
  << [items |-> <<"A", "B">>, token |-> Str(Chars("2"))],
     [items |-> <<"C", "D">>, token |-> Str(Chars("4"))],
     [items |-> <<"E">>, token |-> Undefined] >>

ExampleElements == <<"A", "B", "C", "D", "E">>

\* C10: with the records A..E and page size 2, byPage yields the pages
\* [A,B] with token "2", [C,D] with token "4" and [E] without a token, and
\* then ends; flat iteration yields A, B, C, D, E and then ends.
C10_ExampleOfFiveRecords ==
  backend = ExampleBackend
  => \A s \in SeqIds :
       /\ (iter[s].kind = "page" /\ iter[s].token = Undefined
             /\ iter[s].maxPageSize = PageSize(2))
          => /\ IsPrefix(Brief(Values(delivered[s])), ExamplePages)
             /\ NoErrors(s)
             /\ Completed(s) => Brief(Values(delivered[s])) = ExamplePages
       /\ iter[s].kind = "flat"
          => LET names == [i \in 1..Len(Values(delivered[s])) |->
                             Values(delivered[s])[i].name]
             IN /\ IsPrefix(names, ExampleElements)
                /\ NoErrors(s)
                /\ Completed(s) => names = ExampleElements

C10_Witness ==
  /\ backend = ExampleBackend
  /\ \E s \in SeqIds :
       /\ iter[s].kind = "page" /\ iter[s].maxPageSize = PageSize(2)
       /\ iter[s].token = Undefined
       /\ Completed(s) /\ LastIsDone(s) /\ Len(Values(delivered[s])) = 3
  /\ \E s \in SeqIds :
       /\ iter[s].kind = "flat"
       /\ Completed(s) /\ LastIsDone(s) /\ Len(Values(delivered[s])) = 5

DeliveredPages(s) == IF iter[s].kind = "page" THEN Values(delivered[s]) ELSE <<>>

\* C11: every continuation token carried by a page a byPage sequence has
\* delivered is undefined or a string that is the base-10 text of an
\* integer >= 0, and byPage accepts it, whatever next link the service
\* returned.
C11_TokensAreIntegerTexts ==
  \A s \in SeqIds : \A k \in 1..Len(DeliveredPages(s)) :
    LET tok == DeliveredPages(s)[k].continuationToken
    IN /\ \/ tok = Undefined
          \/ (tok.t = "string" /\ IsNonNegativeIntegerText(tok.s))
       /\ ~throwIfInvalidContinuationToken(tok)

LinkParses(link) == link \in {Undefined, EmptyString} \/ link.valid
Decodable(raws) ==
  LET good == SelectSeq(raws, LAMBDA raw : raw.valid)
  IN [i \in 1..Len(good) |-> [t |-> "queue", name |-> good[i].name]]

\* C12: a list response that is an array with a next link that parses
\* gives a page although some of its records do not decode: the page holds
\* the records that decode, in the order of the response, it is yielded
\* (delivered at once in page mode), and that response raises no error.
C12_BadRecordAloneIsDropped ==
  \A s \in SeqIds : \A k \in 1..Len(received[s]) :
    LET o == received[s][k] IN
    (o.t = "response" /\ o.response.parsedBody.t = "array"
       /\ LinkParses(o.response.parsedBody.nextLink))
    => /\ Len(fetched[s]) >= k
       /\ fetched[s][k]._response = o.response
       /\ fetched[s][k].items = Decodable(o.response.parsedBody.items)
       /\ IsPrefix(YieldedBy(s, k - 1), Values(delivered[s]))
       /\ iter[s].kind = "page" => Values(delivered[s])[k] = fetched[s][k]
       /\ Errors(s) # <<>> => k < Len(received[s])

C12_Witness ==
  \E s \in SeqIds :
    /\ iter[s].kind = "page" /\ Completed(s) /\ NoErrors(s)
    /\ \E k \in 1..Len(Values(delivered[s])) :
         LET page == Values(delivered[s])[k]
             raws == page._response.parsedBody.items
         IN /\ Len(raws) = 2 /\ ~raws[1].valid /\ raws[2].valid
            /\ page.items = <<[t |-> "queue", name |-> raws[2].name]>>

\* C13: when a list request is rejected (by the network, by an abort or by
\* the service), next() delivers that very error: the one error the
\* consumer gets is the error of the rejection, not a parse error and not
\* another error.
C13_TransportErrorIsDeliveredAsIs ==
  \A s \in SeqIds : \A k \in 1..Len(received[s]) :
    LET o == received[s][k] IN
    o.t = "error"
    => /\ o.error \in {TransportError, AbortError, ServiceError}
       /\ Errors(s) = <<Thrown(o.error)>>

C13_Witness ==
  \E s \in SeqIds :
    /\ Len(received[s]) >= 2
    /\ received[s][Len(received[s])] = Failed(TransportError)
    /\ Len(Values(delivered[s])) >= 1
    /\ delivered[s][Len(delivered[s])] = Thrown(TransportError)

\* C14: once a list request of a sequence has failed or was aborted, it is
\* the last request of the sequence (no retry, no later request), the
\* error is delivered once, every result after it is the end of the
\* sequence, and the values delivered are those of the pages before it.
C14_FailureEndsSequence ==
  \A s \in SeqIds : \A k \in 1..Len(received[s]) :
    received[s][k].t = "error"
    => /\ k = Len(received[s])
       /\ Len(requests[s]) = k
       /\ outstanding[s] = 0
       /\ Completed(s)
       /\ Len(Errors(s)) = 1
       /\ \A i, j \in 1..Len(delivered[s]) :
            (delivered[s][i].k = "error" /\ i < j) => delivered[s][j] = Done
       /\ Len(fetched[s]) = k - 1
       /\ Values(delivered[s]) = YieldedBy(s, k - 1)

C14_Witness ==
  \E s \in SeqIds :
    /\ iter[s].kind = "flat"
    /\ Len(received[s]) = 2
    /\ received[s][2] = Failed(AbortError)
    /\ Len(delivered[s]) >= 5
    /\ SubSeq(delivered[s], 3, 5) = <<Thrown(AbortError), Done, Done>>

\* the pages listQueuesPage(marker, options) yields when nothing else runs,
\* and the error it ends with (NoError when it ends normally)
RECURSIVE AlonePages(_, _, _, _)
AlonePages(b, marker, options, fuel) ==
  LET req == listQueuesPageRequest(marker, options) IN
  IF fuel = 0 THEN [pages |-> <<>>, error |-> NoError]
  ELSE IF ~WellFormedQuery(b, req) THEN [pages |-> <<>>, error |-> ServiceError]
  ELSE LET built == buildListQueuesResponse(Window(b, req)) IN
       IF ~built.ok THEN [pages |-> <<>>, error |-> built.error]
       ELSE IF ~listQueuesPageContinues(built.page.continuationToken)
       THEN [pages |-> <<built.page>>, error |-> NoError]
       ELSE LET rest == AlonePages(b, built.page.continuationToken, options, fuel - 1)
            IN [pages |-> <<built.page>> \o rest.pages, error |-> rest.error]

\* the results of the next() calls of a sequence like s that runs alone
RunAlone(s) ==
  LET run == AlonePages(backend, iter[s].token, iter[s], MaxRecords + 2)
      values == IF iter[s].kind = "flat" THEN Flatten(run.pages) ELSE run.pages
  IN [i \in 1..Len(values) |-> Value(values[i])]
     \o (IF run.error = NoError THEN <<>> ELSE <<Thrown(run.error)>>)

\* C15: against a service that follows the contract, whatever the other
\* sequence does and however the next() calls and responses of the two
\* interleave, the results a sequence delivers (elements or pages with
\* their tokens, the error, the end) are those it delivers running alone.
C15_SequencesAreIndependent ==
  \A s \in SeqIds :
    (~backend.faulty /\ iter[s].kind \in {"flat", "page"})
    => LET alone == RunAlone(s)
       IN delivered[s] = [i \in 1..Len(delivered[s]) |->
                            IF i <= Len(alone) THEN alone[i] ELSE Done]

C15_Witness ==
  /\ ~backend.faulty
  /\ iter[1].kind = "page" /\ iter[2].kind = "flat"
  /\ outstanding[1] = 1 /\ outstanding[2] = 1
  /\ Len(Values(delivered[1])) >= 1 /\ Len(Values(delivered[2])) >= 3
  /\ iter[1].marker # iter[2].marker

Honest(s) == ~backend.faulty /\ iter[s].kind \in {"flat", "page"}
DeliveredElements(s) ==
  IF iter[s].kind = "flat" THEN Values(delivered[s]) ELSE Flatten(Values(delivered[s]))

\* C16: against a service that follows the contract (finitely many
\* records, a next link exactly while records remain, its $skip beyond the
\* window served), every request of a flat or byPage iteration asks for an
\* offset beyond that of the request before it, so there are at most one
\* request per record and one more; the generator is never stuck (it waits
\* for a request the service answers, or for next()); the results after
\* the values are the end of the sequence; and an iteration from the start
\* that has ended has delivered every record that decodes, without error.
C16_IterationTerminates ==
  \A s \in SeqIds :
    Honest(s)
    => /\ Len(requests[s]) <= Len(backend.records) + 1
       /\ \A k \in 2..Len(requests[s]) :
            QuerySkip(requests[s][k]).num > QuerySkip(requests[s][k - 1]).num
       /\ iter[s].state = "awaiting"
          => /\ outstanding[s] = 1
             /\ Responses(backend, requests[s][Len(requests[s])])
                  \cup Rejections(backend, requests[s][Len(requests[s])]) # {}
       /\ iter[s].state # "awaiting" => outstanding[s] = 0
       /\ iter[s].token = Undefined
          => /\ NoErrors(s)
             /\ IsPrefix(DeliveredElements(s), DecodeAll(backend.records))
             /\ \A i \in 1..Len(delivered[s]) :
                  delivered[s][i] = Done
                  => /\ Completed(s)
                     /\ DeliveredElements(s) = DecodeAll(backend.records)
             /\ Completed(s) => DeliveredElements(s) = DecodeAll(backend.records)

C16_Witness ==
  /\ ~backend.faulty /\ Len(backend.records) = MaxRecords
  /\ \E s \in SeqIds :
       /\ iter[s].kind = "flat" /\ Completed(s) /\ LastIsDone(s)
       /\ Len(requests[s]) = (MaxRecords + ServerPageSize - 1) \div ServerPageSize
       /\ Len(Values(delivered[s])) = MaxRecords
  /\ \E s \in SeqIds :
       /\ iter[s].kind = "page" /\ iter[s].maxPageSize = PageSize(1)
       /\ iter[s].token = Undefined
       /\ Completed(s) /\ LastIsDone(s)
       /\ Len(requests[s]) = MaxRecords
       /\ Len(Flatten(Values(delivered[s]))) = MaxRecords

IsNotFound(result) ==
  result.k = "error" /\ result.v.code = "MessageEntityNotFoundError"
      /\ result.v.statusCode = 404
HasNoEntity(body) ==
  body \in {Undefined, Null} \/ (body.t = "array" /\ body.items = <<>>)

\* C17: a single-entity fetch whose GET is answered with a response
\* without a body (undefined or null) or with an empty array throws the
\* not-found RestError (code MessageEntityNotFoundError, status 404) and
\* returns nothing; answered with any other body it does not throw an
\* error with that code.
C17_EmptyBodyIsNotFound ==
  (call.state = "settled" /\ call.op \in {"get", "exists"}
     /\ call.outcome.t = "response")
  => LET body == call.outcome.response.parsedBody IN
     /\ HasNoEntity(body) => call.fetch = Thrown(NotFoundError) /\ IsNotFound(call.fetch)
     /\ ~HasNoEntity(body)
        => (call.fetch.k = "error" => call.fetch.v.code # "MessageEntityNotFoundError")

C17_Witness ==
  /\ call.state = "settled" /\ call.op = "get" /\ call.kind = "subscription"
  /\ call.outcome = Answered(HttpResponse(200, ArrayBody(<<>>, Undefined)))
  /\ call.result = Thrown(NotFoundError)

\* C18: queueExists, topicExists and subscriptionExists return true when
\* the fetch they await returns, return false exactly when it throws an
\* error of code MessageEntityNotFoundError, and throw the error of the
\* fetch when it throws any other error.
C18_ExistsMapsNotFoundToFalse ==
  (call.state = "settled" /\ call.op = "exists")
  => /\ call.fetch.k = "value" => call.result = Value(Boolean(TRUE))
     /\ call.result = Value(Boolean(FALSE))
        <=> (call.fetch.k = "error" /\ call.fetch.v.code = "MessageEntityNotFoundError")
     /\ (call.fetch.k = "error" /\ call.fetch.v.code # "MessageEntityNotFoundError")
        => call.result = call.fetch

C18_Witness ==
  /\ call.state = "settled" /\ call.op = "exists"
  /\ call.outcome = Failed(TransportError)
  /\ call.result = Thrown(TransportError)

NextLinkOf(page) == page._response.parsedBody.nextLink

\* C19: the continuation token of a page is the value of the $skip query
\* parameter of the next link of the response it was built from (as the
\* URL gives it: null when the link has no such parameter), and undefined
\* when the response has no next link; every array response with a next
\* link that parses gives such a page.
C19_TokenIsSkipOfNextLink ==
  \A s \in SeqIds :
    /\ \A k \in 1..Len(fetched[s]) :
         LET page == fetched[s][k]
             link == NextLinkOf(page)
         IN /\ link \in {Undefined, EmptyString} => page.continuationToken = Undefined
            /\ link.t = "url" => (link.valid /\ page.continuationToken = link.skip)
    /\ \A k \in 1..Len(received[s]) :
         LET o == received[s][k] IN
         (o.t = "response" /\ o.response.parsedBody.t = "array"
            /\ o.response.parsedBody.nextLink.t = "url"
            /\ o.response.parsedBody.nextLink.valid)
         => /\ Len(fetched[s]) >= k
            /\ fetched[s][k].continuationToken = o.response.parsedBody.nextLink.skip

C19_Witness ==
  \E s \in SeqIds :
    /\ iter[s].kind = "page"
    /\ Len(Values(delivered[s])) >= 2
    /\ NextLinkOf(Values(delivered[s])[1]) = Url(TRUE, Str(Chars("2")))
    /\ Values(delivered[s])[1].continuationToken = Str(Chars("2"))
    /\ NextLinkOf(Values(delivered[s])[Len(Values(delivered[s]))]) = Undefined
    /\ Values(delivered[s])[Len(Values(delivered[s]))].continuationToken = Undefined

\* C20: a list request carries $skip=<N> exactly when a skip value N (a
\* number) is supplied to it, the offset 0 of the token "0" included, and
\* $top=<N> exactly when a limit N is supplied to it; N is written in
\* base 10.
C20_QueryCarriesSkipAndTop ==
  \A s \in SeqIds : \A k \in 1..Len(requests[s]) :
    LET req == requests[s][k]
        skip == req.options.skip
        maxCount == req.options.maxCount
    IN /\ req.query.skip # Undefined <=> ~skip.nan
       /\ ~skip.nan => req.query.skip = Str(NumberToChars(skip))
       /\ req.query.top # Undefined <=> maxCount # Undefined
       /\ maxCount # Undefined => req.query.top = Str(NumberToChars(maxCount.v))

\* C21: flat iteration is one forward pass: whenever the iterator of the
\* object is obtained again, the elements delivered are still a prefix,
\* without repetition, of the records in the service's order and the
\* offsets requested only grow; and the first request of the sequence of
\* every getQueues() call is for offset 0 (no $skip), whatever the
\* sequence of another call has consumed.
C21_FlatIsOneForwardPass ==
  \A s \in SeqIds :
    iter[s].kind = "flat"
    => /\ IsPrefix(Values(delivered[s]), DecodeAll(backend.records))
       /\ iter[s].obtainedAt <= Len(delivered[s])
       /\ \A k \in 2..Len(requests[s]) :
            QuerySkip(requests[s][k]).num > QuerySkip(requests[s][k - 1]).num
       /\ requests[s] # <<>>
          => (requests[s][1].query.skip = Undefined
              /\ requests[s][1].options.skip = NaN)

C21_Witness ==
  /\ iter[1].kind = "flat" /\ iter[1].handles >= 1 /\ iter[1].obtainedAt >= 2
  /\ Len(Values(delivered[1])) >= 4
  /\ iter[2].kind = "flat" /\ Len(requests[2]) >= 1
  /\ Len(Values(delivered[2])) >= 1
  /\ Len(Values(delivered[2])) < Len(Values(delivered[1]))

\* C22: a sequence is lazy: as long as next() has not been called on it,
\* a sequence made by getQueues() or byPage() has issued no list request
\* and its generator has not started; its first request is issued with
\* nothing delivered yet, by a next() call; a byPage call that throws
\* issues none.
C22_NoRequestBeforeFirstNext ==
  \A s \in SeqIds :
    /\ (iter[s].kind \in {"flat", "page"} /\ delivered[s] = <<>> /\ iter[s].pending = 0)
       => /\ requests[s] = <<>>
          /\ outstanding[s] = 0
          /\ iter[s].state = "suspendedStart"
    /\ requests[s] # <<>>
       => /\ iter[s].kind \in {"flat", "page"}
          /\ issuedAt[s][1] = 0
          /\ Len(delivered[s]) + iter[s].pending >= 1

C22_Witness ==
  /\ iter[1].kind = "flat" /\ delivered[1] = <<>> /\ requests[1] = <<>>
  /\ iter[2].kind = "page" /\ delivered[2] = <<>> /\ iter[2].pending = 1
  /\ Len(requests[2]) = 1 /\ outstanding[2] = 1

\* C23: in every state of a byPage sequence the number of list requests
\* issued is the number of pages delivered plus the requests in flight or
\* failed, of which there is at most one; the k-th page delivered is the
\* one built from the response to the k-th request.
C23_OneRoundTripPerPage ==
  \A s \in SeqIds :
    iter[s].kind = "page"
    => /\ Len(requests[s])
            = Len(Values(delivered[s])) + outstanding[s] + Len(Errors(s))
       /\ outstanding[s] + Len(Errors(s)) <= 1
       /\ \A k \in 1..Len(Values(delivered[s])) :
            /\ received[s][k].t = "response"
            /\ Values(delivered[s])[k]._response = received[s][k].response

C23_Witness ==
  \E s \in SeqIds :
    /\ iter[s].kind = "page"
    /\ Len(Values(delivered[s])) = 2
    /\ Len(requests[s]) = 3
    /\ outstanding[s] = 0
    /\ Len(Errors(s)) = 1

\* C24: getSubscription returns the description of the subscription, the
\* object buildSubscription decodes and createSubscription and
\* updateSubscription return, and not the runtime-properties object; so
\* do getQueue and getTopic for their entities.
C24_GetReturnsDescription ==
  (call.state = "settled" /\ call.op = "get" /\ call.result.k = "value"
     /\ call.result.v.entity # EmptyObject)
  => call.result.v.entity.shape = "description"

IsEmptyWithToken(page) == page.items = <<>> /\ Truthy(page.continuationToken)

\* C25: a page with no elements that carries a continuation token does
\* not end a flat iteration: the request for the offset of its token is
\* issued at once, without an element delivered in between; and a flat
\* iteration ends as a byPage iteration over the same responses does: once
\* ended without an error, every page it fetched but the last carried a
\* token, the last did not, and every request had its page.
C25_EmptyPageDoesNotEndFlat ==
  \A s \in SeqIds :
    iter[s].kind \in {"flat", "page"}
    => /\ \A k \in 1..Len(fetched[s]) :
            (iter[s].kind = "flat" /\ IsEmptyWithToken(fetched[s][k]))
            => /\ Len(requests[s]) >= k + 1
               /\ requests[s][k + 1].options.skip
                    = ToNumber(fetched[s][k].continuationToken)
               /\ issuedAt[s][k + 1] = issuedAt[s][k]
       /\ (Completed(s) /\ NoErrors(s))
          => /\ fetched[s] # <<>>
             /\ Len(requests[s]) = Len(fetched[s])
             /\ \A k \in 1..Len(fetched[s]) :
                  Truthy(fetched[s][k].continuationToken) <=> k < Len(fetched[s])
       /\ (outstanding[s] = 1 /\ fetched[s] # <<>>)
          => Truthy(fetched[s][Len(fetched[s])].continuationToken)

C25_Witness ==
  \E s \in SeqIds :
    /\ iter[s].kind = "flat"
    /\ Len(fetched[s]) >= 2
    /\ IsEmptyWithToken(fetched[s][1])
    /\ Values(delivered[s]) # <<>>
    /\ Completed(s) /\ NoErrors(s)

HasUnparsableNextLink(response) ==
  /\ response.parsedBody.t = "array"
  /\ response.parsedBody.nextLink.t = "url"
  /\ ~response.parsedBody.nextLink.valid

\* C26: a list response that is an array whose next link does not parse
\* as a URL makes the listing fail with a RestError of code PARSE_ERROR
\* and of the status of that response; no page is built for it and none
\* of its records is delivered, also when they decode, and the sequence
\* ends with that error.
C26_UnparsableNextLinkIsParseError ==
  \A s \in SeqIds : \A k \in 1..Len(received[s]) :
    LET o == received[s][k] IN
    (o.t = "response" /\ HasUnparsableNextLink(o.response))
    => /\ k = Len(received[s])
       /\ Len(fetched[s]) = k - 1
       /\ Len(requests[s]) = k
       /\ Errors(s) = <<Thrown(ParseError(o.response.status))>>
       /\ Values(delivered[s]) = YieldedBy(s, k - 1)
       /\ Completed(s)

C26_Witness ==
  \E s \in SeqIds :
    /\ Len(received[s]) = 2
    /\ LET o == received[s][2]
       IN /\ o.t = "response" /\ HasUnparsableNextLink(o.response)
          /\ Decodable(o.response.parsedBody.items) # <<>>
    /\ Values(delivered[s]) # <<>>
    /\ Errors(s) = <<Thrown(ParseError(200))>>

IsMissing(v) == v \in {Undefined, Null, EmptyString}
IsInvalidDescription(kind, x) ==
  \/ x.t # "object"
  \/ kind = "subscription" /\ (IsMissing(x.topicName) \/ IsMissing(x.subscriptionName))
  \/ kind # "subscription" /\ IsMissing(x.name)

\* C27: updateQueue, updateTopic, updateSubscription and updateRule called
\* with an argument that is not an object, is null, or lacks its name (a
\* subscription: its topicName or its subscriptionName) throw a TypeError
\* and send no request, nor ask for a token; called with a description
\* that has its names they send one PUT with If-Match: *.
C27_UpdateRejectsInvalidArgument ==
  call.op = "update"
  => IF IsInvalidDescription(call.kind, call.arg)
     THEN /\ call.state = "settled"
          /\ call.result = Thrown(TypeError)
          /\ call.request = NoRequest
          /\ call.tokenCalls = 0
          /\ call.outcome = NoOutcome
     ELSE /\ call.request.method = "PUT"
          /\ call.request.headers.IfMatch = Str(<<"*">>)
          /\ call.request.name = ResourcePath(call.kind, call.arg)
          /\ call.result # Thrown(TypeError)

C27_Witness ==
  /\ call.op = "update" /\ call.kind = "subscription"
  /\ call.arg.t = "object"
  /\ call.arg.topicName = Str(<<"T">>) /\ call.arg.subscriptionName = Undefined
  /\ call.arg.forwardTo = RelativeTarget
  /\ call.result = Thrown(TypeError)
  /\ call.request = NoRequest

IsSet(v) == v.t = "string" /\ v.s # <<>>
SentAs(v) ==
  IF v = RelativeTarget THEN Str(endpointWithProtocol \o RelativeTarget.s) ELSE v

Position(s) == <<iter[s], delivered[s], requests[s], outstanding[s], fetched[s]>>

\* C29: byPage and the flat iterator do not affect each other. A step
\* that creates a page sequence or lets one advance leaves the position of
\* every flat iterator as it was (its generator, what it delivered, its
\* requests); a page sequence is created not started, with nothing
\* requested or delivered, at the token byPage was called with, whatever a
\* flat iterator has consumed by then; its first request asks for the
\* offset of that token, offset 0 (no $skip) when there is none; and a
\* step of a flat iterator leaves every page sequence as it was.
C29_ByPageAndFlatAreSeparate ==
  [][\A a, b \in SeqIds :
       (a # b /\ iter[a].kind = "flat")
       => /\ Position(b)' # Position(b) => Position(a)' = Position(a)
          /\ (iter[b].kind = "none" /\ iter'[b].kind = "page")
             => /\ iter'[b].marker = iter'[b].token
                /\ iter'[b].state = "suspendedStart"
                /\ requests'[b] = <<>> /\ delivered'[b] = <<>>
          /\ (iter[b].kind = "page" /\ requests[b] = <<>> /\ requests'[b] # <<>>)
             => /\ requests'[b][1].options.skip = ToNumber(iter[b].token)
                /\ iter[b].token = Undefined => requests'[b][1].query.skip = Undefined
          /\ (iter[b].kind = "page" /\ Position(a)' # Position(a))
             => Position(b)' = Position(b)]_vars

C29_Witness ==
  /\ iter[1].kind = "flat" /\ iter[2].kind = "page"
  /\ iter[2].token = Undefined
  /\ Len(Values(delivered[1])) >= 3
  /\ Truthy(iter[1].marker)
  /\ issuedAt[1] # <<>>
  /\ Len(Values(delivered[2])) >= 1
  /\ requests[2][1].query.skip = Undefined
  /\ Values(delivered[2])[1].items # <<>>
  /\ Values(delivered[2])[1].items[1] = Values(delivered[1])[1]
  /\ ~Completed(1)

====
